---- MODULE Spec2Model ----
(***************************************************************************)
(* The books service of src/src/handlers.rs and src/src/models.rs: the     *)
(* books table, the four handlers books_get, books_post, books_delete and  *)
(* books_import, the bearer-token check, Book::save, and the import's date *)
(* normalisation.  Strings that the code parses (the offset query value,   *)
(* the upstream publishedDate) are sequences of one-character strings, and *)
(* the parsers are modelled by what they do.  A handler that panics (an    *)
(* unwrap of an Err) sends no response: panicked = TRUE, status = 0.       *)
(* Calls are taken one at a time.  books_get, books_post and books_delete  *)
(* run one store statement each and are one step; books_import is a step   *)
(* up to its outbound request, a step for the response, and a step for     *)
(* each turn of its loop.  A store operation may fail at the pool checkout *)
(* or at the statement.                                                    *)
(***************************************************************************)
EXTENDS Integers, Sequences, FiniteSets, TLC

VARIABLES
    books,   \* the rows of the books table, in store order
    nextId,  \* the next value of the id sequence of the table
    resp,    \* the outcome of the last handler step
    pre,     \* the table and the ids issued so far, before that step
    issued,  \* every id the store has assigned so far
    imp,     \* the import call in flight, if any
    calls,   \* the number of handler calls started
    fetched, \* the number of upstream records received so far
    posted   \* for each 201 of POST /books: its id and what was submitted

vars == <<books, nextId, resp, pre, issued, imp, calls, fetched, posted>>

(* ------------------------------ bounds -------------------------------- *)

\* Largest seeded table (rows present when the service starts).
MaxSeed == 11
\* Number of handler calls in one behaviour.
MaxCalls == 2
\* Number of upstream records received in one behaviour, over all imports.
MaxRecords == 2

(* ----------------------------- constants ------------------------------ *)

\* The page size of the list query ("limit $2::INT" with &10).
PageSize == 10
\* i32::MAX, the width of Params.offset and of the ids.
I32Max == 2147483647

SECRET_TOKEN == "s3cret"

(* ------------------------- character strings -------------------------- *)

Digits == {"0", "1", "2", "3", "4", "5", "6", "7", "8", "9"}

DigitVal(c) ==
    CASE c = "0" -> 0 [] c = "1" -> 1 [] c = "2" -> 2 [] c = "3" -> 3
      [] c = "4" -> 4 [] c = "5" -> 5 [] c = "6" -> 6 [] c = "7" -> 7
      [] c = "8" -> 8 [] c = "9" -> 9

\* The value of the digit string s[from..to] (0 for the empty range).
RECURSIVE Decimal(_, _, _)
Decimal(s, from, to) ==
    IF to < from THEN 0
    ELSE 10 * Decimal(s, from, to - 1) + DigitVal(s[to])

AllDigits(s, from, to) == \A i \in from..to : s[i] \in Digits

\* The checked accumulation of str::parse::<i32>: digit by digit from
\* position i, acc * 10 + d (or - d after a '-'), an error as soon as the
\* result leaves the 32 bits.
RECURSIVE CheckedDigits(_, _, _, _)
CheckedDigits(s, i, acc, neg) ==
    IF i > Len(s) THEN [ok |-> TRUE, val |-> acc]
    ELSE LET d == DigitVal(s[i])
         IN  IF neg
             THEN IF acc < (((0 - I32Max) - 1) + d + 9) \div 10
                  THEN [ok |-> FALSE, val |-> 0]
                  ELSE CheckedDigits(s, i + 1, acc * 10 - d, neg)
             ELSE IF acc > (I32Max - d) \div 10
                  THEN [ok |-> FALSE, val |-> 0]
                  ELSE CheckedDigits(s, i + 1, acc * 10 + d, neg)

\* str::parse::<i32>: an optional sign, then at least one digit and nothing
\* else; a value outside the 32 bits is an error.
ParseI32(s) ==
    LET n == Len(s)
        signed == n > 0 /\ s[1] \in {"+", "-"}
        from == IF signed THEN 2 ELSE 1
    IN  IF n < from \/ ~AllDigits(s, from, n)
        THEN [ok |-> FALSE, val |-> 0]
        ELSE CheckedDigits(s, from, 0, signed /\ s[1] = "-")

(* ------------------------------- dates --------------------------------- *)

\* chrono::NaiveDate as <<year, month, day>>.
IsLeap(y) == y % 4 = 0 /\ (y % 100 # 0 \/ y % 400 = 0)

DaysInMonth(y, m) ==
    IF m = 2 THEN (IF IsLeap(y) THEN 29 ELSE 28)
    ELSE IF m \in {4, 6, 9, 11} THEN 30 ELSE 31

\* NaiveDate::from_ymd_opt: the calendar check.
ValidYmd(y, m, d) ==
    /\ y >= -262144 /\ y <= 262143
    /\ m >= 1 /\ m <= 12
    /\ d >= 1 /\ d <= DaysInMonth(y, m)

\* The first position at or after p that holds no space (numeric items trim
\* leading white space).
RECURSIVE SkipSpaces(_, _)
SkipSpaces(s, p) ==
    IF p <= Len(s) /\ s[p] = " " THEN SkipSpaces(s, p + 1) ELSE p

\* The number of digits at p, at most maxw of them.
RECURSIVE CountDigits(_, _, _)
CountDigits(s, p, maxw) ==
    IF maxw > 0 /\ p <= Len(s) /\ s[p] \in Digits
    THEN 1 + CountDigits(s, p + 1, maxw - 1)
    ELSE 0

\* NaiveDate::parse_from_str(s, "%Y-%m-%d"): a year of 1 to 4 digits (any
\* number after a sign), a month and a day of 1 or 2 digits, each after
\* optional white space, the two '-' literal, nothing after the day, and
\* the three numbers a date of the calendar.
ParseYmd(s) ==
    LET n == Len(s)
        p0 == SkipSpaces(s, 1)
        signed == p0 <= n /\ s[p0] \in {"+", "-"}
        ys == IF signed THEN p0 + 1 ELSE p0
        yw == CountDigits(s, ys, IF signed THEN n ELSE 4)
        ymag == Decimal(s, ys, ys + yw - 1)
        year == IF signed /\ s[p0] = "-" THEN 0 - ymag ELSE ymag
        p1 == ys + yw
        ms == SkipSpaces(s, p1 + 1)
        mw == CountDigits(s, ms, 2)
        month == Decimal(s, ms, ms + mw - 1)
        p2 == ms + mw
        ds == SkipSpaces(s, p2 + 1)
        dw == CountDigits(s, ds, 2)
        day == Decimal(s, ds, ds + dw - 1)
        p3 == ds + dw
        shape == /\ yw > 0
                 /\ p1 <= n /\ s[p1] = "-"
                 /\ mw > 0
                 /\ p2 <= n /\ s[p2] = "-"
                 /\ dw > 0
                 /\ p3 = n + 1
    IN  IF shape /\ ValidYmd(year, month, day)
        THEN [ok |-> TRUE, date |-> <<year, month, day>>]
        ELSE [ok |-> FALSE, date |-> <<0, 1, 1>>]

\* A faulty publication_date: a string of another length is an error.
publication_date_strict(published_data) ==
    IF Len(published_data) = 4
    THEN LET year == ParseI32(published_data)
         IN  IF year.ok THEN [kind |-> "ok", date |-> <<year.val, 1, 1>>]
             ELSE [kind |-> "panic", date |-> <<0, 1, 1>>]
    ELSE IF Len(published_data) = 10
         THEN LET d == ParseYmd(published_data)
              IN  IF d.ok THEN [kind |-> "ok", date |-> d.date]
                  ELSE [kind |-> "err", date |-> <<0, 1, 1>>]
         ELSE [kind |-> "err", date |-> <<0, 1, 1>>]

\* The import's date normalisation, by the length of the upstream string:
\* "ok" with a date, "err" (the record is skipped), or "panic" (the unwrap
\* of the failed integer parse).
publication_date(published_data) ==
    IF Len(published_data) = 4
    THEN LET year == ParseI32(published_data)
         IN  IF year.ok THEN [kind |-> "ok", date |-> <<year.val, 1, 1>>]
             ELSE [kind |-> "panic", date |-> <<0, 1, 1>>]
    ELSE IF Len(published_data) = 10
         THEN LET d == ParseYmd(published_data)
              IN  IF d.ok THEN [kind |-> "ok", date |-> d.date]
                  ELSE [kind |-> "err", date |-> <<0, 1, 1>>]
         ELSE [kind |-> "ok", date |-> <<0, 1, 1>>]

(* ------------------------------ the store ------------------------------ *)

\* Book::new.
Book_new(id, title, authors, date) ==
    [id |-> id, title |-> title, authors |-> authors, publication_date |-> date]

Ids(table) == {table[i].id : i \in 1..Len(table)}

\* The id the sequence hands out after seq.
NextSeq(seq) == seq + 1

\* A faulty select_books: the page runs one row too far.
select_books_off_by_one(table, offset) ==
    IF offset < 0 THEN [ok |-> FALSE, rows |-> <<>>]
    ELSE IF offset >= Len(table) THEN [ok |-> TRUE, rows |-> <<>>]
    ELSE [ok |-> TRUE,
          rows |-> SubSeq(table, offset + 1,
                          IF Len(table) - offset > PageSize
                          THEN offset + PageSize + 1 ELSE Len(table))]

\* "select id, name, author, publication_date from books offset $1 limit 10":
\* the store rejects a negative offset.
select_books(table, offset) ==
    IF offset < 0 THEN [ok |-> FALSE, rows |-> <<>>]
    ELSE IF offset >= Len(table) THEN [ok |-> TRUE, rows |-> <<>>]
    ELSE [ok |-> TRUE,
          rows |-> SubSeq(table, offset + 1,
                          IF Len(table) - offset > PageSize
                          THEN offset + PageSize ELSE Len(table))]

RECURSIVE RowsOtherThan(_, _)
RowsOtherThan(table, id) ==
    IF table = <<>> THEN <<>>
    ELSE IF Head(table).id = id THEN RowsOtherThan(Tail(table), id)
         ELSE <<Head(table)>> \o RowsOtherThan(Tail(table), id)

\* A faulty delete_from_books: the rows are counted and not removed.
delete_from_books_keeps(table, id) ==
    [table |-> table,
     affected |-> Cardinality({i \in 1..Len(table) : table[i].id = id})]

\* "delete from books where id = $1": the rows left and the number deleted.
delete_from_books(table, id) ==
    LET left == RowsOtherThan(table, id)
    IN  [table |-> left, affected |-> Len(table) - Len(left)]

\* Book::save: the insert, returning the id the store assigned.  Both
\* results are unwrapped: a pool or query failure panics.
Book_save(book, db, table, seq) ==
    IF db # "ok"
    THEN [panicked |-> TRUE, id |-> 0, table |-> table, seq |-> seq]
    ELSE [panicked |-> FALSE, id |-> seq,
          table |-> Append(table,
                           Book_new(seq, book.title, book.authors,
                                    book.publication_date)),
          seq |-> NextSeq(seq)]

(* ----------------------------- the handlers ---------------------------- *)

\* The outcome of a handler step.  status is the HTTP status of the
\* response, 0 when the step sends none (it panicked, or the call goes on).
Outcome(op, status, panicked, cause, arg, body, book) ==
    [op |-> op, status |-> status, panicked |-> panicked, cause |-> cause,
     arg |-> arg, body |-> body, book |-> book]

NoBook == Book_new(0, "", <<>>, <<0, 1, 1>>)

\* A faulty Params_from_query: a value that does not parse counts as 0.
Params_from_query_default(query) ==
    IF ~query.has_offset THEN [ok |-> TRUE, offset |-> 0]
    ELSE LET r == ParseI32(query.offset)
         IN  [ok |-> TRUE, offset |-> r.val]

\* web::Query::<Params>::from_query: offset is an i32, 0 when absent.
Params_from_query(query) ==
    IF ~query.has_offset THEN [ok |-> TRUE, offset |-> 0]
    ELSE LET r == ParseI32(query.offset)
         IN  [ok |-> r.ok, offset |-> r.val]

\* A faulty check_token: every token passes.
check_token_any(token) == TRUE

\* check_token: Ok exactly when the bearer token is the configured secret.
check_token(token) == token = SECRET_TOKEN

\* Json<Book>: id is skip_deserializing, so it is the default 0 whatever
\* the client sent; the date is parsed from its YYYY-MM-DD text.
Deserialize_Book(json) ==
    Book_new(0, json.title, json.authors, ParseYmd(json.publication_date).date)

\* A faulty created_book: new_book.id is not set.
created_book_keeps_id(item, new_id) == item

\* The body of the 201: the submitted book with the id the store assigned.
created_book(item, new_id) == [item EXCEPT !.id = new_id]

\* books_get: 400 on bad params, 500 on a pool or query failure, else the
\* page.
books_get(query, db, table) ==
    LET params == Params_from_query(query)
        rows == select_books(table, params.offset)
    IN  IF ~params.ok
        THEN Outcome("get", 400, FALSE, "params", query, <<>>, NoBook)
        ELSE IF db = "pool_err"
        THEN Outcome("get", 500, FALSE, "store", query, <<>>, NoBook)
        ELSE IF db = "query_err" \/ ~rows.ok
        THEN Outcome("get", 500, FALSE, "store", query, <<>>, NoBook)
        ELSE Outcome("get", 200, FALSE, "none", query, rows.rows, NoBook)

\* books_post: the outcome, the table and the sequence after it.
books_post(json, auth, db, table, seq) ==
    LET item == Deserialize_Book(json)
        arg == [json |-> json, auth |-> auth]
        saved == Book_save(item, db, table, seq)
    IN  IF ~auth.present \/ ~check_token(auth.token)
        THEN [out |-> Outcome("post", 401, FALSE, "auth", arg, <<>>, NoBook),
              table |-> table, seq |-> seq]
        ELSE IF saved.panicked
        THEN [out |-> Outcome("post", 0, TRUE, "store", arg, <<>>, NoBook),
              table |-> saved.table, seq |-> saved.seq]
        ELSE [out |-> Outcome("post", 201, FALSE, "none", arg, <<>>,
                              created_book(item, saved.id)),
              table |-> saved.table, seq |-> saved.seq]

\* books_delete: the pool checkout is unwrapped (a failure panics), a
\* failed delete is a 500, no row deleted a 404, else 204.
books_delete(id, auth, db, table) ==
    LET arg == [id |-> id, auth |-> auth]
        del == delete_from_books(table, id)
    IN  IF ~auth.present \/ ~check_token(auth.token)
        THEN [out |-> Outcome("delete", 401, FALSE, "auth", arg, <<>>, NoBook),
              table |-> table]
        ELSE IF db = "pool_err"
        THEN [out |-> Outcome("delete", 0, TRUE, "store", arg, <<>>, NoBook),
              table |-> table]
        ELSE IF db = "query_err"
        THEN [out |-> Outcome("delete", 500, FALSE, "store", arg, <<>>, NoBook),
              table |-> table]
        ELSE IF del.affected = 0
        THEN [out |-> Outcome("delete", 404, FALSE, "none", arg, <<>>, NoBook),
              table |-> del.table]
        ELSE [out |-> Outcome("delete", 204, FALSE, "none", arg, <<>>, NoBook),
              table |-> del.table]

\* A faulty q_is_empty: no q is refused.
q_is_empty_never(q) == FALSE

\* books_import's first check: query.q.is_empty().
q_is_empty(q) == q = ""

(* ------------------------------- inputs -------------------------------- *)

\* The values of the offset query parameter that are tried.
OffsetTexts ==
    { <<"a", "b", "c">>, <<>>, <<"-", "1">>,
      <<"0">>, <<"1">>, <<"1", "0">>, <<"1", "1">>,
      <<"2", "1", "4", "7", "4", "8", "3", "6", "4", "7">>,
      <<"2", "1", "4", "7", "4", "8", "3", "6", "4", "8">> }

Queries ==
    {[has_offset |-> FALSE, offset |-> <<>>]}
        \cup {[has_offset |-> TRUE, offset |-> s] : s \in OffsetTexts}

\* The Authorization header: absent, the secret, another token.
Auths ==
    { [present |-> FALSE, token |-> ""],
      [present |-> TRUE, token |-> SECRET_TOKEN],
      [present |-> TRUE, token |-> "wrong"] }

\* Complete valid create payloads; id is what the client put in the body
\* (0: none).
JsonBodies ==
    { [id |-> i, title |-> ti, authors |-> <<"ann", "bob">>,
       publication_date |-> d] :
        i \in {0, 7}, ti \in {"t1"},
        d \in { <<"2", "0", "0", "1", "-", "0", "7", "-", "0", "4">> } }

\* The outcomes of a store operation.
DbOutcomes == {"ok", "pool_err", "query_err"}

\* The publishedDate strings of upstream records.
DateTexts ==
    { <<"1", "9", "9", "9">>,
      <<"a", "b", "c", "d">>,
      <<"2", "0", "0", "1", "-", "0", "7", "-", "0", "4">>,
      <<"2", "0", "0", "1", "-", "0", "2", "-", "3", "0">>,
      <<" ", "2", "0", "0", "1", "-", "7", "-", "0", "4">>,
      <<"?", "?">> }

\* An upstream record: only title, authors and publishedDate are read.
GoogleBook(d) ==
    [title |-> "g", authors |-> <<"cat">>, published_date |-> d]

\* The item lists of upstream responses.
Batches ==
    UNION { [1..n -> {GoogleBook(d) : d \in DateTexts}] : n \in 0..MaxRecords }

\* The search terms tried.
SearchTerms == {"", "rust"}

\* The rows the table holds when the service starts: ids 1..n.
SeedRow(i) == Book_new(i, "seed", <<"zed">>, <<2000, 1, 1>>)

SeedTable(n) == [i \in 1..n |-> SeedRow(i)]

SeedSizes == {0, 2, MaxSeed}

\* The ids tried in DELETE /books/{id}.
PathIds == {1, 2, MaxSeed + 1}

(* ---------------------------- the state machine ------------------------ *)

ImpIdle == [pc |-> "idle", items |-> <<>>, idx |-> 1, saved |-> <<>>,
            requests |-> 0]

Init ==
    \E n \in SeedSizes :
        /\ books = SeedTable(n)
        /\ nextId = n + 1
        /\ issued = 1..n
        /\ resp = Outcome("none", 0, FALSE, "none", <<>>, <<>>, NoBook)
        /\ pre = [books |-> SeedTable(n), issued |-> 1..n]
        /\ imp = ImpIdle
        /\ calls = 0
        /\ fetched = 0
        /\ posted = {}

Snapshot == pre' = [books |-> books, issued |-> issued]

\* GET /books.
BooksGet(query, db) ==
    /\ imp.pc = "idle" /\ calls < MaxCalls
    /\ calls' = calls + 1
    /\ resp' = books_get(query, db, books)
    /\ Snapshot
    /\ UNCHANGED <<books, nextId, issued, imp, fetched, posted>>

\* POST /books.
BooksPost(json, auth, db) ==
    /\ imp.pc = "idle" /\ calls < MaxCalls
    /\ calls' = calls + 1
    /\ LET r == books_post(json, auth, db, books, nextId)
       IN  /\ resp' = r.out
           /\ books' = r.table
           /\ nextId' = r.seq
           /\ issued' = IF r.out.status = 201
                        THEN issued \cup {nextId} ELSE issued
           /\ posted' = IF r.out.status = 201
                        THEN posted \cup {[id |-> r.out.book.id,
                                             title |-> json.title,
                                             authors |-> json.authors,
                                             publication_date |->
                                                 json.publication_date]}
                        ELSE posted
    /\ Snapshot
    /\ UNCHANGED <<imp, fetched>>

\* DELETE /books/{id}.
BooksDelete(id, auth, db) ==
    /\ imp.pc = "idle" /\ calls < MaxCalls
    /\ calls' = calls + 1
    /\ LET r == books_delete(id, auth, db, books)
       IN  /\ resp' = r.out
           /\ books' = r.table
    /\ Snapshot
    /\ UNCHANGED <<nextId, issued, imp, fetched, posted>>

\* GET /import/books: the check of q, then the outbound request is sent.
ImportCall(q) ==
    /\ imp.pc = "idle" /\ calls < MaxCalls
    /\ calls' = calls + 1
    /\ IF q_is_empty(q)
       THEN /\ resp' = Outcome("import", 400, FALSE, "params", q, <<>>, NoBook)
            /\ imp' = ImpIdle
       ELSE /\ resp' = Outcome("import_send", 0, FALSE, "none", q, <<>>, NoBook)
            /\ imp' = [ImpIdle EXCEPT !.pc = "awaiting", !.requests = 1]
    /\ Snapshot
    /\ UNCHANGED <<books, nextId, issued, fetched, posted>>

\* The outbound request ends: it failed, its body could not be read or
\* parsed (each unwrapped: a panic), or it gave a list of items.
ImportResponse(fetch, items) ==
    /\ imp.pc = "awaiting"
    /\ IF fetch = "ok"
       THEN /\ Len(items) <= MaxRecords - fetched
            /\ fetched' = fetched + Len(items)
            /\ resp' = Outcome("import_recv", 0, FALSE, "none", items, <<>>, NoBook)
            /\ imp' = [imp EXCEPT !.pc = "saving", !.items = items]
       ELSE /\ items = <<>>
            /\ fetched' = fetched
            /\ resp' = Outcome("import", 0, TRUE, fetch, imp, <<>>, NoBook)
            /\ imp' = ImpIdle
    /\ Snapshot
    /\ UNCHANGED <<books, nextId, issued, calls, posted>>

\* One turn of the loop over the items: the date is normalised and the
\* record is saved, or skipped; a panic ends the call.
ImportItem(db) ==
    /\ imp.pc = "saving" /\ imp.idx <= Len(imp.items)
    /\ LET book == imp.items[imp.idx]
           d == publication_date(book.published_date)
           new_book == Book_new(0, book.title, book.authors, d.date)
           saved == Book_save(new_book, db, books, nextId)
       IN  IF d.kind = "panic"
           THEN /\ resp' = Outcome("import", 0, TRUE, "date", imp, <<>>, NoBook)
                /\ imp' = ImpIdle
                /\ UNCHANGED <<books, nextId, issued>>
           ELSE IF d.kind = "err"
           THEN /\ resp' = Outcome("import_item", 0, FALSE, "skipped",
                                   book.published_date, <<>>, NoBook)
                /\ imp' = [imp EXCEPT !.idx = imp.idx + 1]
                /\ UNCHANGED <<books, nextId, issued>>
           ELSE IF saved.panicked
           THEN /\ resp' = Outcome("import", 0, TRUE, "store", imp, <<>>, NoBook)
                /\ imp' = ImpIdle
                /\ UNCHANGED <<books, nextId, issued>>
           ELSE /\ resp' = Outcome("import_item", 0, FALSE, "saved",
                                   book.published_date, <<>>,
                                   saved.table[Len(saved.table)])
                /\ imp' = [imp EXCEPT !.idx = imp.idx + 1,
                                      !.saved = Append(imp.saved,
                                                       saved.table[Len(saved.table)])]
                /\ books' = saved.table
                /\ nextId' = saved.seq
                /\ issued' = issued \cup {saved.id}
    /\ Snapshot
    /\ UNCHANGED <<calls, fetched, posted>>

\* The loop is over: 200.
ImportFinish ==
    /\ imp.pc = "saving" /\ imp.idx > Len(imp.items)
    /\ resp' = Outcome("import", 200, FALSE, "none", imp, <<>>, NoBook)
    /\ imp' = ImpIdle
    /\ Snapshot
    /\ UNCHANGED <<books, nextId, issued, calls, fetched, posted>>

Next ==
    \/ \E query \in Queries, db \in DbOutcomes : BooksGet(query, db)
    \/ \E json \in JsonBodies, auth \in Auths, db \in DbOutcomes :
           BooksPost(json, auth, db)
    \/ \E id \in PathIds, auth \in Auths, db \in DbOutcomes :
           BooksDelete(id, auth, db)
    \/ \E q \in SearchTerms : ImportCall(q)
    \/ \E fetch \in {"ok", "send_err", "body_err", "shape_err"},
          items \in Batches : ImportResponse(fetch, items)
    \/ \E db \in DbOutcomes : ImportItem(db)
    \/ ImportFinish

Spec == Init /\ [][Next]_vars

(* ------------------------- notions of the claims ----------------------- *)

\* s is the decimal text of an integer: an optional sign and digits.
IntegerText(s) ==
    LET from == IF Len(s) > 0 /\ s[1] \in {"+", "-"} THEN 2 ELSE 1
    IN  Len(s) >= from /\ AllDigits(s, from, Len(s))

\* s is the decimal text of a non-negative integer.
NaturalText(s) == Len(s) > 0 /\ AllDigits(s, 1, Len(s))

\* The integer a short integer text denotes.
IntegerValue(s) ==
    IF s[1] = "-" THEN 0 - Decimal(s, 2, Len(s))
    ELSE IF s[1] = "+" THEN Decimal(s, 2, Len(s))
    ELSE Decimal(s, 1, Len(s))

\* s is YYYY-MM-DD, ten characters, and names a date of the calendar.
IsoDateText(s) ==
    /\ Len(s) = 10
    /\ AllDigits(s, 1, 4) /\ s[5] = "-"
    /\ AllDigits(s, 6, 7) /\ s[8] = "-"
    /\ AllDigits(s, 9, 10)
    /\ ValidYmd(Decimal(s, 1, 4), Decimal(s, 6, 7), Decimal(s, 9, 10))

IsoDate(s) == <<Decimal(s, 1, 4), Decimal(s, 6, 7), Decimal(s, 9, 10)>>

Authorized(auth) == auth.present /\ auth.token = SECRET_TOKEN

\* The rows of table other than those with this id, in order.
Without(table, id) == SelectSeq(table, LAMBDA r : r.id # id)

\* The length of the page at offset of a table of n rows.
PageLen(n, offset) ==
    IF offset >= n THEN 0
    ELSE IF n - offset > PageSize THEN PageSize ELSE n - offset

\* body is the page of table at offset: the rows at [offset, offset + 10).
IsPage(body, table, offset) ==
    /\ Len(body) = PageLen(Len(table), offset)
    /\ \A k \in 1..Len(body) : body[k] = table[offset + k]

\* An upstream date whose parse fails.
DateFails(s) ==
    \/ Len(s) = 4 /\ ~ParseI32(s).ok
    \/ Len(s) = 10 /\ ~ParseYmd(s).ok

(* -------------------------------- claims ------------------------------- *)

\* C1, as stated: for every non-negative integer offset, GET /books (the
\* store answering) gives 200 with at most 10 books, and leaves the table
\* unchanged.
C1_AnyNaturalOffset ==
    (resp.op = "get" /\ resp.arg.has_offset /\ NaturalText(resp.arg.offset)
        /\ resp.cause # "store")
    => (resp.status = 200 /\ Len(resp.body) <= PageSize
        /\ books = pre.books)

\* C1, amended: for every non-negative offset that fits the 32 bits of
\* Params.offset, GET /books (the store answering) gives 200 with the rows
\* at positions [offset, offset + 10) of the table, at most 10, none when
\* the offset is at or past the end; a 200 is always such a page; and the
\* request leaves the table unchanged whatever its outcome.
C1_Page ==
    resp.op = "get" =>
        /\ books = pre.books
        /\ (resp.arg.has_offset /\ NaturalText(resp.arg.offset)
               /\ ParseI32(resp.arg.offset).ok /\ resp.cause # "store")
           => (/\ resp.status = 200
               /\ Len(resp.body) <= PageSize
               /\ IsPage(resp.body, pre.books,
                         ParseI32(resp.arg.offset).val))
        /\ resp.status = 200 =>
               LET o == IF resp.arg.has_offset
                        THEN ParseI32(resp.arg.offset).val ELSE 0
               IN  o >= 0 /\ IsPage(resp.body, pre.books, o)

\* C1's case: a page cut at 10 rows of a longer table.
C1_Witness ==
    /\ resp.op = "get" /\ resp.status = 200
    /\ resp.arg.has_offset
    /\ Len(resp.body) = PageSize
    /\ Len(pre.books) > PageSize

\* C2: a POST /books with a valid token (the store answering) gives 201
\* with a positive id that no earlier insert was given, also not one whose
\* row was deleted since, whatever id the client sent; the row it adds has
\* the submitted title, authors and date; and every book of a later GET
\* page whose id a POST answered with shows what that POST submitted.
C2_Create ==
    /\ (resp.op = "post" /\ Authorized(resp.arg.auth) /\ resp.cause # "store")
       => (/\ resp.status = 201
           /\ resp.book.id > 0
           /\ resp.book.id \notin pre.issued
           /\ resp.book.id \notin Ids(pre.books)
           /\ resp.book.title = resp.arg.json.title
           /\ resp.book.authors = resp.arg.json.authors
           /\ resp.book.publication_date = IsoDate(resp.arg.json.publication_date)
           /\ books = Append(pre.books, resp.book))
    /\ (resp.op = "get" /\ resp.status = 200)
       => \A k \in 1..Len(resp.body) : \A p \in posted :
              p.id = resp.body[k].id
              => (/\ resp.body[k].title = p.title
                  /\ resp.body[k].authors = p.authors
                  /\ resp.body[k].publication_date
                         = IsoDate(p.publication_date))

\* C2's case: a create with a client id, after a row was deleted.
C2_Witness ==
    /\ resp.op = "post" /\ resp.status = 201
    /\ resp.arg.json.id = 7
    /\ \E i \in pre.issued : i \notin Ids(pre.books)

C4_DeleteState ==
    (resp.op = "delete" /\ Authorized(resp.arg.auth) /\ resp.cause # "store")
    => IF resp.arg.id \in Ids(pre.books)
       THEN /\ resp.status = 204
            /\ Len(books) = Len(pre.books) - 1
            /\ books = Without(pre.books, resp.arg.id)
       ELSE /\ resp.status = 404
            /\ books = pre.books

\* C4, in a step: the authorized DELETE that follows a 204 of the same id
\* gives 404.
C4_DeleteTwice ==
    (/\ resp.op = "delete" /\ resp.status = 204
     /\ calls' = calls + 1
     /\ resp'.op = "delete" /\ Authorized(resp'.arg.auth)
     /\ resp'.cause # "store"
     /\ resp'.arg.id = resp.arg.id)
    => resp'.status = 404

\* C4: an authorized DELETE /books/{id} gives 404 and no change when no row
\* has the id, 204 and exactly that row removed when one has, and 204 then
\* 404 when it is sent twice in a row.
C4_Delete == []C4_DeleteState /\ [][C4_DeleteTwice]_vars

\* C4's case: the second delete of an id that was issued and deleted.
C4_Witness ==
    /\ resp.op = "delete" /\ resp.status = 404
    /\ resp.arg.id \in pre.issued
    /\ resp.arg.id \notin Ids(pre.books)

\* C5: a handler whose store operation failed answers 500; it does not
\* panic.
C5_StoreFailureIs500 ==
    resp.cause = "store" => (~resp.panicked /\ resp.status = 500)

\* C6: an import whose fetch and inserts succeeded ends with 200, having
\* skipped the records whose date fails to parse and inserted one row for
\* each of the others.
C6_SkipsBadDates ==
    (resp.op = "import" /\ resp.cause \in {"date", "none"})
    => (/\ ~resp.panicked
        /\ resp.status = 200
        /\ Len(resp.arg.saved)
               = Cardinality({i \in 1..Len(resp.arg.items) :
                                 ~DateFails(resp.arg.items[i].published_date)}))

\* C7: an import with an empty q gives 400, sends no outbound request and
\* writes no row; no outbound request carries an empty q.
C7_EmptyQuery ==
    /\ resp.op = "import_send" => resp.arg # ""
    /\ (resp.op = "import" /\ resp.status = 400)
       => (/\ resp.arg = ""
           /\ imp.requests = 0 /\ imp.pc = "idle"
           /\ books = pre.books)

\* C7's case: the 400 of an import.
C7_Witness == resp.op = "import" /\ resp.status = 400 /\ imp.requests = 0

\* C8: an import whose outbound request failed, or whose response could not
\* be read or parsed, answers with a non-success status, after one outbound
\* request and no insert.
C8_FetchFailureReported ==
    (resp.op = "import" /\ resp.cause \in {"send_err", "body_err", "shape_err"})
    => (/\ ~resp.panicked
        /\ resp.status >= 400
        /\ resp.arg.requests = 1
        /\ resp.arg.saved = <<>>
        /\ books = pre.books)

\* C9: the import maps an upstream date by its length: four characters
\* that are an integer y give (y, 1, 1); ten characters YYYY-MM-DD give that
\* date; any other length gives (0, 1, 1); and the record is inserted with
\* that date (the store answering).  Only a date of four characters that
\* is no integer ends the call.
C9_DateByLength ==
    /\ resp.op = "import_item" =>
          LET s == resp.arg
              stored == resp.cause = "saved"
                        /\ books = Append(pre.books, resp.book)
          IN  /\ (Len(s) = 4 /\ IntegerText(s))
                 => (stored /\ resp.book.publication_date
                                   = <<IntegerValue(s), 1, 1>>)
              /\ IsoDateText(s)
                 => (stored /\ resp.book.publication_date = IsoDate(s))
              /\ Len(s) \notin {4, 10}
                 => (stored /\ resp.book.publication_date = <<0, 1, 1>>)
    /\ (resp.op = "import" /\ resp.cause = "date") =>
          LET s == resp.arg.items[resp.arg.idx].published_date
          IN  Len(s) = 4 /\ ~IntegerText(s)

\* C9's case: a record with a date of another length, inserted with the
\* sentinel date.
C9_Witness ==
    /\ resp.op = "import_item" /\ resp.cause = "saved"
    /\ Len(resp.arg) \notin {4, 10}
    /\ books[Len(books)].publication_date = <<0, 1, 1>>

\* C10: GET /books with an offset that is no integer gives 400, whatever
\* the store would answer; with no offset the page at 0 is returned (the
\* store answering).
C10_BadOffset ==
    resp.op = "get" =>
        /\ (resp.arg.has_offset /\ ~IntegerText(resp.arg.offset))
           => (resp.status = 400 /\ resp.cause = "params")
        /\ (~resp.arg.has_offset /\ resp.cause # "store")
           => (resp.status = 200 /\ IsPage(resp.body, pre.books, 0))

\* C10's case: the 400 of offset=abc.
C10_Witness ==
    /\ resp.op = "get" /\ resp.status = 400
    /\ resp.arg.has_offset /\ resp.arg.offset = <<"a", "b", "c">>

====
